---- MODULE Spec2Model ----
(***************************************************************************)
(* Model of docile/evaluation/metrics.py (pccs_covered, pccs_iou,          *)
(* get_matches) over the records of docile/dataset/field.py.               *)
(*                                                                         *)
(* Fields are referred to by their position in the input lists (object     *)
(* identity of the Field instances); coordinates and scores are integers   *)
(* standing for the floats of the code (only their order is used).         *)
(* An Optional value is a sequence of length 0 (None) or 1.                *)
(***************************************************************************)
EXTENDS Integers, Sequences, FiniteSets, TLC

\* ---------------------------------------------------------------- bounds
MaxPreds == 2
MaxGolds == 2
MaxPccs == 2
MaxLen == 3
MaxX == 2

\* EPS = 1e-6, kept as its inverse so that comparisons stay in the integers.
EPS_INV == 1000000

None == <<>>
Some(v) == <<v>>

\* ------------------------------------------------------ field.py records
BBox(l, t, r, b) == [left |-> l, top |-> t, right |-> r, bottom |-> b]
PCC(px, py, pg) == [x |-> px, y |-> py, page |-> pg]
Field(bb, pg, sc, ft) == [bbox |-> bb, page |-> pg, score |-> sc, fieldtype |-> ft]

\* ---------------------------------------------------------- input domains
Pages == {0, 1}
FieldTypes == {None, Some("amount")}
FieldKeys == {<<None, 0>>, <<Some("amount"), 0>>, <<Some("amount"), 1>>}
Scores == {None, Some(1), Some(-1)}
FieldBBoxes == {BBox(0, 0, 0, 0), BBox(0, 0, 1, 0)}
PagePccs == {PCC(0, 0, 0), PCC(1, 0, 0), PCC(0, 0, 1)}
Thresholds == {[num |-> 1, den |-> 1], [num |-> 1, den |-> 2]}
PredFields == {Field(bb, k[2], sc, k[1]) : bb \in FieldBBoxes, k \in FieldKeys, sc \in Scores}
GoldFields == {Field(bb, k[2], None, k[1]) : bb \in FieldBBoxes, k \in FieldKeys}
SeqsUpTo(S, n) == UNION {[1..k -> S] : k \in 0..n}

\* inputs of the pccs_covered specification
CovPccs == {PCC(px, py, 0) : px \in 0..MaxX, py \in 0..1}
CovBBoxes == {BBox(l, t, r, b) : l \in 0..MaxX, r \in 0..MaxX, t \in 0..1, b \in 0..1}

\* ------------------------------------------------------- library helpers
\* sorted(seq, key=...): stable, ascending; keys[i] is the key of seq[i].
sorted(seq, keys) ==
  LET n == Len(seq)
      rank(i) == Cardinality({j \in 1..n : keys[j] < keys[i] \/ (keys[j] = keys[i] /\ j < i)}) + 1
  IN [r \in 1..n |-> seq[CHOOSE i \in 1..n : rank(i) = r]]

RECURSIVE bisect_left_loop(_, _, _, _)
bisect_left_loop(keys, v, lo, hi) ==
  IF lo < hi
  THEN LET mid == (lo + hi) \div 2
       IN IF keys[mid + 1] < v
          THEN bisect_left_loop(keys, v, mid + 1, hi)
          ELSE bisect_left_loop(keys, v, lo, mid)
  ELSE lo

\* bisect_left(a, v, key=...): keys is the list of key(a[i]); 0-based result.
bisect_left(keys, v) == bisect_left_loop(keys, v, 0, Len(keys))

RECURSIVE bisect_right_loop(_, _, _, _)
bisect_right_loop(keys, v, lo, hi) ==
  IF lo < hi
  THEN LET mid == (lo + hi) \div 2
       IN IF v < keys[mid + 1]
          THEN bisect_right_loop(keys, v, lo, mid)
          ELSE bisect_right_loop(keys, v, mid + 1, hi)
  ELSE lo

\* variant: the right edge treated as exclusive
bisect_right_exclusive(keys, v) == bisect_left_loop(keys, v, 0, Len(keys))

bisect_right(keys, v) == bisect_right_loop(keys, v, 0, Len(keys))

\* set(a[i:j]) with Python's 0-based half-open slice
slice_set(a, i, j) == {a[k] : k \in (i + 1)..j}

xs(pccs_list) == [i \in 1..Len(pccs_list) |-> pccs_list[i].x]
ys(pccs_list) == [i \in 1..Len(pccs_list) |-> pccs_list[i].y]

\* --------------------------------------------------------- overlap engine
pccs_covered(sorted_x_pccs, sorted_y_pccs, bbox) ==
  LET i_l == bisect_left(xs(sorted_x_pccs), bbox.left)
      i_r == bisect_right(xs(sorted_x_pccs), bbox.right)
      x_subset == slice_set(sorted_x_pccs, i_l, i_r)
      i_t == bisect_left(ys(sorted_y_pccs), bbox.top)
      i_b == bisect_right(ys(sorted_y_pccs), bbox.bottom)
      y_subset == slice_set(sorted_y_pccs, i_t, i_b)
  IN x_subset \cap y_subset

\* pccs_iou as the pair (numerator, denominator); a zero denominator is the
\* ZeroDivisionError of the division.
pccs_iou(sorted_x_pccs, sorted_y_pccs, gold_bbox, pred_bbox) ==
  LET golds == pccs_covered(sorted_x_pccs, sorted_y_pccs, gold_bbox)
      preds == pccs_covered(sorted_x_pccs, sorted_y_pccs, pred_bbox)
  IN [num |-> Cardinality(golds \cap preds), den |-> Cardinality(golds \cup preds)]

\* ------------------------------------------------------------------ state
VARIABLES
  pc,                           \* "idle", "loop", "returned", "raised" (get_matches)
  predictions, annotations, pccs, iou_threshold,      \* arguments of get_matches
  page_to_sorted_x_pccs, page_to_sorted_y_pccs,       \* page -> sorted PCC list
  annotations_by_key_and_page,  \* (fieldtype, page) -> list of remaining golds
  todo,                         \* field types the outer loop has not reached yet
  visited,                      \* field types in the order the outer loop took them
  pending,                      \* rest of the sorted predictions of the current type
  matched_pairs, extra, misses, \* the result lists
  error,                        \* "" or the exception that ended the call
  cov_pc, cov_sorted_x, cov_sorted_y, cov_bbox, cov_result   \* a pccs_covered call

vars == <<pc, predictions, annotations, pccs, iou_threshold, page_to_sorted_x_pccs,
          page_to_sorted_y_pccs, annotations_by_key_and_page, todo, visited, pending,
          matched_pairs, extra, misses, error,
          cov_pc, cov_sorted_x, cov_sorted_y, cov_bbox, cov_result>>

match_vars == <<pc, predictions, annotations, pccs, iou_threshold, page_to_sorted_x_pccs,
                page_to_sorted_y_pccs, annotations_by_key_and_page, todo, visited, pending,
                matched_pairs, extra, misses, error>>

cov_vars == <<cov_pc, cov_sorted_x, cov_sorted_y, cov_bbox, cov_result>>

\* ------------------------------------------------- get_matches, lines 71-92
\* page_to_pccs: the PCCs of one page in input order; only pages that occur.
page_pccs(all_pccs, page) == SelectSeq(all_pccs, LAMBDA p : p.page = page)

pages_of(all_pccs) == {all_pccs[i].page : i \in 1..Len(all_pccs)}

sorted_x(all_pccs) ==
  [page \in pages_of(all_pccs) |-> sorted(page_pccs(all_pccs, page), xs(page_pccs(all_pccs, page)))]

sorted_y(all_pccs) ==
  [page \in pages_of(all_pccs) |-> sorted(page_pccs(all_pccs, page), ys(page_pccs(all_pccs, page)))]

\* the positions of a list whose flag is set, in list order
RECURSIVE indices_from(_, _)
indices_from(flags, i) ==
  IF i > Len(flags) THEN <<>>
  ELSE (IF flags[i] THEN <<i>> ELSE <<>>) \o indices_from(flags, i + 1)

indices_where(flags) == indices_from(flags, 1)

\* variants: pools grouped by page only, or by fieldtype only
pool_key_ignoring_fieldtype(f) == <<None, f.page>>

pool_key_ignoring_page(f) == <<f.fieldtype, 0>>

\* the pool a field belongs to: annotations_by_key_and_page[fieldtype][page]
pool_key(f) == <<f.fieldtype, f.page>>

group_annotations(annots) ==
  [key \in FieldTypes \X Pages |->
     indices_where([i \in 1..Len(annots) |-> pool_key(annots[i]) = key])]

predictions_by_key(preds, fieldtype) ==
  indices_where([i \in 1..Len(preds) |-> preds[i].fieldtype = fieldtype])

all_fieldtypes(preds, annots) ==
  {annots[i].fieldtype : i \in 1..Len(annots)} \cup {preds[i].fieldtype : i \in 1..Len(preds)}

\* ------------------------------------------------ get_matches, lines 94-113
\* variant: the sign of the score not flipped
sort_key_ascending(pred) == IF pred.score # None THEN pred.score[1] ELSE 0

\* key=lambda pred: -pred.score if pred.score is not None else 0
sort_key(pred) == IF pred.score # None THEN -pred.score[1] ELSE 0

sorted_predictions(fieldtype) ==
  LET idx == predictions_by_key(predictions, fieldtype)
  IN sorted(idx, [i \in 1..Len(idx) |-> sort_key(predictions[idx[i]])])

\* variant: the comparison without EPS
above_threshold_no_eps(iou, threshold) == iou.num * threshold.den > threshold.num * iou.den

\* iou > iou_threshold - EPS, for iou = num/den with den > 0
above_threshold(iou, threshold) ==
  iou.num * threshold.den * EPS_INV > (threshold.num * EPS_INV - threshold.den) * iou.den

iou_of(gold_i, pred_i) ==
  pccs_iou(page_to_sorted_x_pccs[predictions[pred_i].page],
           page_to_sorted_y_pccs[predictions[pred_i].page],
           annotations[gold_i].bbox, predictions[pred_i].bbox)

\* one pass of the inner loop body, lines 100-106
compare(gold_i, pred_i) ==
  IF predictions[pred_i].page \notin DOMAIN page_to_sorted_x_pccs THEN "KeyError"
  ELSE IF iou_of(gold_i, pred_i).den = 0 THEN "ZeroDivisionError"
  ELSE IF above_threshold(iou_of(gold_i, pred_i), iou_threshold) THEN "accept"
  ELSE "reject"

\* the inner loop from position i of the pool (1-based): where it stops
RECURSIVE scan_from(_, _, _)
scan_from(pool, i, pred_i) ==
  IF i > Len(pool) THEN [kind |-> "none", at |-> 0]
  ELSE LET c == compare(pool[i], pred_i)
       IN IF c = "accept" THEN [kind |-> "match", at |-> i]
          ELSE IF c = "reject" THEN scan_from(pool, i + 1, pred_i)
          ELSE [kind |-> c, at |-> i]

\* a scan that lacks the break: the last acceptable candidate wins
RECURSIVE scan_last_from(_, _, _)
scan_last_from(pool, i, pred_i) ==
  IF i > Len(pool) THEN [kind |-> "none", at |-> 0]
  ELSE LET c == compare(pool[i], pred_i)
           rest == scan_last_from(pool, i + 1, pred_i)
       IN IF c \in {"KeyError", "ZeroDivisionError"} THEN [kind |-> c, at |-> i]
          ELSE IF rest.kind # "none" THEN rest
          ELSE IF c = "accept" THEN [kind |-> "match", at |-> i]
          ELSE rest

first_fit_without_break(pool, pred_i) == scan_last_from(pool, 1, pred_i)

first_fit(pool, pred_i) == scan_from(pool, 1, pred_i)

\* variants: nothing removed, or the head removed whatever gold_i is
pop_nothing(pool, i) == pool

pop_head(pool, i) == Tail(pool)

\* list.pop(gold_i), gold_i 1-based here
pop(pool, i) == SubSeq(pool, 1, i - 1) \o SubSeq(pool, i + 1, Len(pool))

\* variant: the prediction appended to extra without the else
record_extra_always(st, pred_i, found) ==
  LET key == pool_key(predictions[pred_i])
  IN CASE found.kind = "match" ->
            [st EXCEPT !.pools[key] = pop(@, found.at),
                       !.matched_pairs = Append(@, [gold |-> st.pools[key][found.at], pred |-> pred_i]),
                       !.extra = Append(@, pred_i)]
       [] found.kind = "none" -> [st EXCEPT !.extra = Append(@, pred_i)]
       [] OTHER -> [st EXCEPT !.error = found.kind]

\* lines 98-113 for one prediction, given where the scan stopped
record(st, pred_i, found) ==
  LET key == pool_key(predictions[pred_i])
  IN CASE found.kind = "match" ->
            [st EXCEPT !.pools[key] = pop(@, found.at),
                       !.matched_pairs = Append(@, [gold |-> st.pools[key][found.at], pred |-> pred_i])]
       [] found.kind = "none" -> [st EXCEPT !.extra = Append(@, pred_i)]
       [] OTHER -> [st EXCEPT !.error = found.kind]

match_prediction(st, pred_i) ==
  record(st, pred_i, first_fit(st.pools[pool_key(predictions[pred_i])], pred_i))

\* ----------------------------------------------- get_matches, lines 115-120
\* the values of a list without repetitions, in order of first occurrence
RECURSIVE first_seen(_)
first_seen(s) ==
  IF s = <<>> THEN <<>>
  ELSE LET init == first_seen(SubSeq(s, 1, Len(s) - 1))
           last == s[Len(s)]
       IN IF \E i \in 1..Len(init) : init[i] = last THEN init ELSE Append(init, last)

RECURSIVE concat(_)
concat(lists) == IF lists = <<>> THEN <<>> ELSE Head(lists) \o concat(Tail(lists))

\* the pools in dict insertion order: field types, then pages, as first seen
\* in the annotations (pools created later by lookups are empty)
collect_misses(pools) ==
  LET keys == first_seen([i \in 1..Len(annotations) |-> annotations[i].fieldtype])
  IN concat([k \in 1..Len(keys) |->
        LET pgs == first_seen([j \in 1..Len(predictions_by_key(annotations, keys[k])) |->
                                 annotations[predictions_by_key(annotations, keys[k])[j]].page])
        IN concat([j \in 1..Len(pgs) |-> pools[<<keys[k], pgs[j]>>]])])

\* ---------------------------------------------------------------- actions
Init ==
  /\ pc = "idle"
  /\ predictions = <<>> /\ annotations = <<>> /\ pccs = <<>>
  /\ iou_threshold = [num |-> 1, den |-> 1]
  /\ page_to_sorted_x_pccs = <<>> /\ page_to_sorted_y_pccs = <<>>
  /\ annotations_by_key_and_page = [key \in FieldTypes \X Pages |-> <<>>]
  /\ todo = {} /\ visited = <<>> /\ pending = <<>>
  /\ matched_pairs = <<>> /\ extra = <<>> /\ misses = <<>> /\ error = ""
  /\ cov_pc = "idle" /\ cov_sorted_x = <<>> /\ cov_sorted_y = <<>>
  /\ cov_bbox = BBox(0, 0, 0, 0) /\ cov_result = {}

\* get_matches(predictions, annotations, pccs, iou_threshold): lines 71-92
Call ==
  /\ pc = "idle"
  /\ \E preds \in SeqsUpTo(PredFields, MaxPreds), annots \in SeqsUpTo(GoldFields, MaxGolds),
        all_pccs \in SeqsUpTo(PagePccs, MaxPccs), threshold \in Thresholds :
       /\ predictions' = preds /\ annotations' = annots /\ pccs' = all_pccs
       /\ iou_threshold' = threshold
       /\ page_to_sorted_x_pccs' = sorted_x(all_pccs)
       /\ page_to_sorted_y_pccs' = sorted_y(all_pccs)
       /\ annotations_by_key_and_page' = group_annotations(annots)
       /\ todo' = all_fieldtypes(preds, annots)
  /\ pc' = "loop"
  /\ UNCHANGED <<visited, pending, matched_pairs, extra, misses, error>>
  /\ UNCHANGED cov_vars

\* "for fieldtype in all_fieldtypes": a set, so the order is not fixed (line 93),
\* then the sort of that type's predictions (lines 94-97)
NextFieldtype ==
  /\ pc = "loop" /\ pending = <<>> /\ todo # {}
  /\ \E fieldtype \in todo :
       /\ todo' = todo \ {fieldtype}
       /\ visited' = Append(visited, fieldtype)
       /\ pending' = sorted_predictions(fieldtype)
  /\ UNCHANGED <<pc, predictions, annotations, pccs, iou_threshold, page_to_sorted_x_pccs,
                 page_to_sorted_y_pccs, annotations_by_key_and_page, matched_pairs, extra,
                 misses, error>>
  /\ UNCHANGED cov_vars

current == [pools |-> annotations_by_key_and_page, matched_pairs |-> matched_pairs,
            extra |-> extra, error |-> error]

\* one iteration of "for pred in sorted(...)": lines 98-113
ProcessPred ==
  /\ pc = "loop" /\ pending # <<>>
  /\ LET st == match_prediction(current, Head(pending))
     IN IF st.error # ""
        THEN /\ pc' = "raised" /\ error' = st.error
             /\ UNCHANGED <<annotations_by_key_and_page, matched_pairs, extra, pending>>
        ELSE /\ annotations_by_key_and_page' = st.pools
             /\ matched_pairs' = st.matched_pairs
             /\ extra' = st.extra
             /\ pending' = Tail(pending)
             /\ UNCHANGED <<pc, error>>
  /\ UNCHANGED <<predictions, annotations, pccs, iou_threshold, page_to_sorted_x_pccs,
                 page_to_sorted_y_pccs, todo, visited, misses>>
  /\ UNCHANGED cov_vars

\* lines 115-126
Return ==
  /\ pc = "loop" /\ pending = <<>> /\ todo = {}
  /\ misses' = collect_misses(annotations_by_key_and_page)
  /\ pc' = "returned"
  /\ UNCHANGED <<predictions, annotations, pccs, iou_threshold, page_to_sorted_x_pccs,
                 page_to_sorted_y_pccs, annotations_by_key_and_page, todo, visited, pending,
                 matched_pairs, extra, error>>
  /\ UNCHANGED cov_vars

Next == Call \/ NextFieldtype \/ ProcessPred \/ Return

Spec == Init /\ [][Next]_vars

\* a call of pccs_covered on one page's PCCs, sorted as lines 74-79 sort them
CoveredCall ==
  /\ cov_pc = "idle"
  /\ \E page_list \in SeqsUpTo(CovPccs, MaxLen), bbox \in CovBBoxes :
       /\ cov_sorted_x' = sorted(page_list, xs(page_list))
       /\ cov_sorted_y' = sorted(page_list, ys(page_list))
       /\ cov_bbox' = bbox
  /\ cov_pc' = "called"
  /\ UNCHANGED cov_result
  /\ UNCHANGED match_vars

CoveredReturn ==
  /\ cov_pc = "called"
  /\ cov_result' = pccs_covered(cov_sorted_x, cov_sorted_y, cov_bbox)
  /\ cov_pc' = "returned"
  /\ UNCHANGED <<cov_sorted_x, cov_sorted_y, cov_bbox>>
  /\ UNCHANGED match_vars

NextCovered == CoveredCall \/ CoveredReturn

SpecCovered == Init /\ [][NextCovered]_vars

\* ------------------------------------------- get_matches as one computation
\* The whole call for a given iteration order of all_fieldtypes (lines 89-126).
initial_state ==
  [pools |-> group_annotations(annotations), matched_pairs |-> <<>>, extra |-> <<>>,
   error |-> ""]

RECURSIVE run_predictions(_, _)
run_predictions(st, queue) ==
  IF queue = <<>> \/ st.error # "" THEN st
  ELSE run_predictions(match_prediction(st, Head(queue)), Tail(queue))

RECURSIVE run_fieldtypes(_, _)
run_fieldtypes(st, order) ==
  IF order = <<>> \/ st.error # "" THEN st
  ELSE run_fieldtypes(run_predictions(st, sorted_predictions(Head(order))), Tail(order))

result_of(st) ==
  [matches |-> st.matched_pairs, extra |-> st.extra,
   misses |-> IF st.error = "" THEN collect_misses(st.pools) ELSE <<>>,
   error |-> st.error]

get_matches(order) == result_of(run_fieldtypes(initial_state, order))

\* ================================================================= claims
ThresholdOne == iou_threshold.num = iou_threshold.den

matched_preds == {matched_pairs[i].pred : i \in 1..Len(matched_pairs)}
matched_golds == {matched_pairs[i].gold : i \in 1..Len(matched_pairs)}
extra_preds == {extra[i] : i \in 1..Len(extra)}
missed_golds == {misses[i] : i \in 1..Len(misses)}
Preds == 1..Len(predictions)
Golds == 1..Len(annotations)

same_key(gold_i, pred_i) ==
  /\ annotations[gold_i].fieldtype = predictions[pred_i].fieldtype
  /\ annotations[gold_i].page = predictions[pred_i].page

\* C1: when get_matches returns, |matches| + |extra| = |predictions| and
\* |matches| + |misses| = |annotations|; every prediction is in exactly one of
\* matches and extra, every annotation in exactly one of matches and misses.
C1_Partition ==
  pc = "returned" =>
    /\ Len(matched_pairs) + Len(extra) = Len(predictions)
    /\ Len(matched_pairs) + Len(misses) = Len(annotations)
    /\ \A p \in Preds : (p \in matched_preds) # (p \in extra_preds)
    /\ \A g \in Golds : (g \in matched_golds) # (g \in missed_golds)

C1_Witness ==
  /\ pc = "returned"
  /\ Len(matched_pairs) = 1 /\ Len(extra) = 1 /\ Len(misses) = 1

\* C2: no annotation position and no prediction position occurs in two matched
\* pairs: an accepted gold has left its pool and is never paired again.
C2_OneToOne ==
  \A i, j \in 1..Len(matched_pairs) :
    i # j => /\ matched_pairs[i].gold # matched_pairs[j].gold
             /\ matched_pairs[i].pred # matched_pairs[j].pred

\* the second matched prediction would have accepted the first pair's gold too
C2_Witness ==
  /\ pc = "returned"
  /\ Len(matched_pairs) = 2
  /\ same_key(matched_pairs[1].gold, matched_pairs[2].pred)
  /\ compare(matched_pairs[1].gold, matched_pairs[2].pred) = "accept"

identical(gold_i, pred_i) ==
  /\ same_key(gold_i, pred_i)
  /\ annotations[gold_i].bbox = predictions[pred_i].bbox

score_rank(pred_i) == IF predictions[pred_i].score = None THEN 0 ELSE predictions[pred_i].score[1]

tried_before(q, p) == score_rank(q) > score_rank(p) \/ (score_rank(q) = score_rank(p) /\ q < p)

sole_gold(g) ==
  \A h \in Golds : (annotations[h].fieldtype = annotations[g].fieldtype
                     /\ annotations[h].page = annotations[g].page) => h = g

would_match(g) == {p \in Preds : same_key(g, p) /\ compare(g, p) = "accept"}

\* C4: when several predictions of one fieldtype and page would each match the
\* single gold of that fieldtype and page, the one of highest score (missing
\* score = 0, the earlier in the input on equal scores) gets the gold and the
\* others end in extra, whatever the order of the input list.
C4_ScoreOrder ==
  pc = "returned" =>
    \A g \in Golds : sole_gold(g) =>
      \A q \in would_match(g) :
        IF \A p \in would_match(g) \ {q} : tried_before(q, p)
        THEN \E i \in 1..Len(matched_pairs) : matched_pairs[i] = [gold |-> g, pred |-> q]
        ELSE q \in extra_preds

\* the winner has no score, stands later in the input, and beat a negative score
C4_Witness ==
  /\ pc = "returned"
  /\ \E g \in Golds, p, q \in Preds :
       /\ sole_gold(g) /\ p < q
       /\ {p, q} \subseteq would_match(g)
       /\ predictions[q].score = None /\ predictions[p].score = Some(-1)
       /\ q \in matched_preds /\ p \in extra_preds

\* C5 as stated: the only exception get_matches raises is the ZeroDivisionError
\* of a comparison whose two covered sets are both empty.
C5_OnlyZeroDivision ==
  pc = "raised" => error = "ZeroDivisionError"

\* C6: a prediction with no annotation of its fieldtype and page ends in extra
\* and the call never raises while handling it.
C6_NoCandidateIsExtra ==
  LET lonely(p) == \A g \in Golds : ~same_key(g, p)
  IN /\ \A p \in Preds : lonely(p) => p \notin matched_preds
     /\ pc = "returned" => \A p \in Preds : lonely(p) => p \in extra_preds
     /\ pc = "raised" => ~lonely(Head(pending))

\* such a prediction on a page without PCCs, with an identical gold of its
\* fieldtype on another page
C6_Witness ==
  /\ pc = "returned"
  /\ \E p \in extra_preds :
       /\ \A g \in Golds : ~same_key(g, p)
       /\ predictions[p].page \notin DOMAIN page_to_sorted_x_pccs
       /\ \E g \in Golds : /\ annotations[g].fieldtype = predictions[p].fieldtype
                           /\ annotations[g].bbox = predictions[p].bbox

\* the remaining pool of the prediction that is about to be handled
pool_of(pred_i) ==
  annotations_by_key_and_page[<<predictions[pred_i].fieldtype, predictions[pred_i].page>>]

acceptable(pool, pred_i) == {i \in 1..Len(pool) : compare(pool[i], pred_i) = "accept"}

without(pool, i) == [k \in 1..(Len(pool) - 1) |-> IF k < i THEN pool[k] ELSE pool[k + 1]]

\* C7: a step that handles a prediction without raising pairs it with the
\* acceptable candidate of least position in its pool and removes exactly that
\* one, the others keeping their order; with no acceptable candidate the pool is
\* unchanged and the prediction is extra.
C7_FirstFit ==
  [][(pc = "loop" /\ pending # <<>> /\ error' = "") =>
       LET p == Head(pending)
           pool == pool_of(p)
           ok == acceptable(pool, p)
       IN IF ok = {}
          THEN /\ annotations_by_key_and_page' = annotations_by_key_and_page
               /\ extra' = Append(extra, p)
               /\ matched_pairs' = matched_pairs
          ELSE LET first == CHOOSE i \in ok : \A j \in ok : i <= j
               IN /\ annotations_by_key_and_page' =
                       [annotations_by_key_and_page
                          EXCEPT ![<<predictions[p].fieldtype, predictions[p].page>>] = without(pool, first)]
                  /\ matched_pairs' = Append(matched_pairs, [gold |-> pool[first], pred |-> p])
                  /\ extra' = extra]_vars

larger_iou(a, b) == a.num * b.den > b.num * a.den

\* a matched gold, and a gold later in the same pool with a strictly larger IoU
C7_Witness ==
  /\ pc = "returned"
  /\ \E i \in 1..Len(matched_pairs) : \E g \in Golds :
       /\ same_key(g, matched_pairs[i].pred)
       /\ matched_pairs[i].gold < g
       /\ larger_iou(iou_of(g, matched_pairs[i].pred),
                     iou_of(matched_pairs[i].gold, matched_pairs[i].pred))

\* The best-fit variant of C8: every remaining candidate is compared, and among
\* those above the threshold the one of largest IoU is taken, the first on ties.
best_fit(pool, pred_i) ==
  LET errors == {i \in 1..Len(pool) : compare(pool[i], pred_i) \in {"KeyError", "ZeroDivisionError"}}
      ok == acceptable(pool, pred_i)
  IN IF errors # {}
     THEN LET e == CHOOSE i \in errors : \A j \in errors : i <= j
          IN [kind |-> compare(pool[e], pred_i), at |-> e]
     ELSE IF ok = {} THEN [kind |-> "none", at |-> 0]
     ELSE [kind |-> "match",
           at |-> CHOOSE i \in ok : \A j \in ok \ {i} :
                    \/ larger_iou(iou_of(pool[i], pred_i), iou_of(pool[j], pred_i))
                    \/ (~larger_iou(iou_of(pool[j], pred_i), iou_of(pool[i], pred_i)) /\ i < j)]

RECURSIVE best_run_predictions(_, _)
best_run_predictions(st, queue) ==
  IF queue = <<>> \/ st.error # "" THEN st
  ELSE LET p == Head(queue)
       IN best_run_predictions(
            record(st, p, best_fit(st.pools[pool_key(predictions[p])], p)), Tail(queue))

RECURSIVE best_run_fieldtypes(_, _)
best_run_fieldtypes(st, order) ==
  IF order = <<>> \/ st.error # "" THEN st
  ELSE best_run_fieldtypes(best_run_predictions(st, sorted_predictions(Head(order))), Tail(order))

get_matches_best_fit(order) == result_of(best_run_fieldtypes(initial_state, order))

Orders(S) == {o \in [1..Cardinality(S) -> S] : \A i, j \in 1..Cardinality(S) : o[i] = o[j] => i = j}

as_sets(r) ==
  [matches |-> {r.matches[i] : i \in 1..Len(r.matches)},
   extra |-> {r.extra[i] : i \in 1..Len(r.extra)},
   misses |-> {r.misses[i] : i \in 1..Len(r.misses)}]

C10_CoveredExact ==
  cov_pc = "returned" =>
    cov_result =
      {p \in {cov_sorted_x[i] : i \in 1..Len(cov_sorted_x)} :
         /\ cov_bbox.left <= p.x /\ p.x <= cov_bbox.right
         /\ cov_bbox.top <= p.y /\ p.y <= cov_bbox.bottom}

\* a PCC given twice lies on the right and bottom edges and is covered once,
\* another one within the x range lies above the box
C10_Witness ==
  /\ cov_pc = "returned"
  /\ Cardinality(cov_result) = 1
  /\ \E i, j \in 1..Len(cov_sorted_x) :
       /\ i # j /\ cov_sorted_x[i] = cov_sorted_x[j]
       /\ cov_sorted_x[i] \in cov_result
       /\ cov_sorted_x[i].x = cov_bbox.right /\ cov_sorted_x[i].y = cov_bbox.bottom
  /\ \E k \in 1..Len(cov_sorted_x) :
       /\ cov_bbox.left <= cov_sorted_x[k].x /\ cov_sorted_x[k].x <= cov_bbox.right
       /\ cov_sorted_x[k].y < cov_bbox.top

====
